---- MODULE Spec2Model ----
(***************************************************************************)
(* Model of the auto wake-up reset detector                                *)
(* (src/src/wakeup/reset-detector.ts).                                     *)
(*                                                                         *)
(* Encoding of the TypeScript values:                                      *)
(*   - remainingPercentage is a fraction 0..1 in the code; here it is      *)
(*     counted in hundredths (0.99 is 99).  An optional number is a        *)
(*     sequence: <<>> is undefined, <<v>> is the value v.                  *)
(*   - resetTime is a string; NoResetTime stands for undefined.            *)
(*   - a QuotaSnapshot is [isNull |-> FALSE, models |-> <<...>>]; the      *)
(*     value null is NullSnapshot.  timestamp and method are never read    *)
(*     by the detector and are left out.                                   *)
(***************************************************************************)
EXTENDS Integers, Sequences, FiniteSets, TLC

\* ------------------------------------------------------------ bounds
\* Longest list of models in a snapshot handed to the pure functions.
MaxModels == 2
\* Number of quota fetches (accounts visited, over all passes) one behaviour runs.
MaxFetches == 3
\* the second invocation starts while the first process has visited at most
\* this many accounts, and no pass starts after it
MaxFetchesBeforeOverlap == 1
\* Number of quota fetches of a behaviour that checks the exported functions
\* and the passes side by side.
MaxDetectFetches == 2

\* ------------------------------------------------------- value sets
ModelIds == {"m1", "m2"}
NoResetTime == "undefined"
ResetTimes == {"R1", "R2"}
OptResetTimes == ResetTimes \cup {NoResetTime}
\* undefined, below the threshold, the threshold itself, full
OptPercentages == {<<>>, <<98>>, <<99>>, <<100>>}

\* const FULL_QUOTA_THRESHOLD = 0.99, in hundredths
FULL_QUOTA_THRESHOLD == 99

\* ModelQuotaInfo (label and timeUntilResetMs are never read)
ModelQuotaInfo(id, pct, exh, rt) ==
  [modelId |-> id, remainingPercentage |-> pct, isExhausted |-> exh, resetTime |-> rt]

\* every model the single-model predicate is tried on
AllModels ==
  { ModelQuotaInfo(id, pct, exh, rt) :
      id \in ModelIds, pct \in OptPercentages, exh \in BOOLEAN, rt \in OptResetTimes }

\* the models a previously cached snapshot is built from: only modelId and
\* resetTime of a cached model are ever read
CachedModels ==
  { ModelQuotaInfo(id, <<100>>, FALSE, rt) : id \in ModelIds, rt \in OptResetTimes }

\* the models a scanned snapshot is built from
ScanModels ==
  { ModelQuotaInfo(id, pct, FALSE, rt) :
      id \in ModelIds, pct \in {<<>>, <<98>>, <<100>>}, rt \in OptResetTimes }

\* the models a fetched snapshot is built from: m1 full in either reset cycle
\* or partly used in the second one, m2 full
FetchModels ==
  { ModelQuotaInfo("m1", <<100>>, FALSE, "R1"),
    ModelQuotaInfo("m1", <<100>>, FALSE, "R2"),
    ModelQuotaInfo("m1", <<98>>, FALSE, "R2"),
    ModelQuotaInfo("m2", <<100>>, FALSE, "R1") }

Accounts == {"a1", "a2"}
NoEmail == "none"
\* what resolveAccounts(config.selectedAccounts) may return
AccountLists == {<<>>, <<"a1">>, <<"a2">>, <<"a1", "a2">>}

SeqsUpTo(S, n) == UNION { [1..k -> S] : k \in 0..n }

NullSnapshot == [isNull |-> TRUE, models |-> <<>>]
QuotaSnapshot(ms) == [isNull |-> FALSE, models |-> ms]
NoModel == ModelQuotaInfo("none", <<>>, FALSE, NoResetTime)

SnapshotsOver(S, n) == { QuotaSnapshot(ms) : ms \in SeqsUpTo(S, n) }

\* ------------------------------------------------- pure functions

\* Array.prototype.find: the index of the first element with the id, 0 if none
FindIndex(ms, id) ==
  IF \E i \in 1..Len(ms) : ms[i].modelId = id
  THEN CHOOSE i \in 1..Len(ms) :
         /\ ms[i].modelId = id
         /\ \A j \in 1..(i - 1) : ms[j].modelId # id
  ELSE 0

\* isModelUnused with the reset-time comparison left out: any full model with a
\* reset time is reported, whatever the cache holds
isModelUnused_NoDedup(model, previousSnapshot) ==
  IF model.remainingPercentage = <<>> THEN FALSE
  ELSE IF model.remainingPercentage[1] < FULL_QUOTA_THRESHOLD THEN FALSE
  ELSE IF model.resetTime = NoResetTime THEN FALSE
  ELSE TRUE

\* isModelUnused with the comparison inverted (=== for !==)
isModelUnused_Inverted(model, previousSnapshot) ==
  IF model.remainingPercentage = <<>> THEN FALSE
  ELSE IF model.remainingPercentage[1] < FULL_QUOTA_THRESHOLD THEN FALSE
  ELSE IF model.resetTime = NoResetTime THEN FALSE
  ELSE IF previousSnapshot.isNull THEN TRUE
  ELSE LET k == FindIndex(previousSnapshot.models, model.modelId)
       IN  IF k = 0 THEN TRUE
           ELSE IF model.resetTime # previousSnapshot.models[k].resetTime THEN FALSE
           ELSE TRUE

\* isModelUnused with <= for < at the threshold: 0.99 itself counts as used
isModelUnused_StrictThreshold(model, previousSnapshot) ==
  IF model.remainingPercentage = <<>> THEN FALSE
  ELSE IF model.remainingPercentage[1] <= FULL_QUOTA_THRESHOLD THEN FALSE
  ELSE IF model.resetTime = NoResetTime THEN FALSE
  ELSE IF previousSnapshot.isNull THEN TRUE
  ELSE LET k == FindIndex(previousSnapshot.models, model.modelId)
       IN  IF k = 0 THEN TRUE
           ELSE IF model.resetTime = previousSnapshot.models[k].resetTime THEN FALSE
           ELSE TRUE

\* isModelUnused with the fullness test applied only when a cached record exists
isModelUnused_ThresholdAfterLookup(model, previousSnapshot) ==
  IF model.remainingPercentage = <<>> THEN FALSE
  ELSE IF model.resetTime = NoResetTime THEN FALSE
  ELSE IF previousSnapshot.isNull THEN TRUE
  ELSE LET k == FindIndex(previousSnapshot.models, model.modelId)
       IN  IF k = 0 THEN TRUE
           ELSE IF model.remainingPercentage[1] < FULL_QUOTA_THRESHOLD THEN FALSE
           ELSE IF model.resetTime = previousSnapshot.models[k].resetTime THEN FALSE
           ELSE TRUE

\* isModelUnused without the test for a missing reset time
isModelUnused_NoResetTimeCheck(model, previousSnapshot) ==
  IF model.remainingPercentage = <<>> THEN FALSE
  ELSE IF model.remainingPercentage[1] < FULL_QUOTA_THRESHOLD THEN FALSE
  ELSE IF previousSnapshot.isNull THEN TRUE
  ELSE LET k == FindIndex(previousSnapshot.models, model.modelId)
       IN  IF k = 0 THEN TRUE
           ELSE IF model.resetTime = previousSnapshot.models[k].resetTime THEN FALSE
           ELSE TRUE

\* isModelUnused(model, previousSnapshot)
isModelUnused(model, previousSnapshot) ==
  IF model.remainingPercentage = <<>> THEN FALSE
  ELSE IF model.remainingPercentage[1] < FULL_QUOTA_THRESHOLD THEN FALSE
  ELSE IF model.resetTime = NoResetTime THEN FALSE
  ELSE IF previousSnapshot.isNull THEN TRUE
  ELSE LET k == FindIndex(previousSnapshot.models, model.modelId)
       IN  IF k = 0 THEN TRUE
           ELSE IF model.resetTime = previousSnapshot.models[k].resetTime THEN FALSE
           ELSE TRUE

\* findUnusedModels(snapshot, previousSnapshot)
findUnusedModels(snapshot, previousSnapshot) ==
  SelectSeq(snapshot.models, LAMBDA m : isModelUnused(m, previousSnapshot))

\* hasUnusedModels that does not pass previousSnapshot on (the parameter's
\* default, null, is used)
hasUnusedModels_DropsPrevious(snapshot, previousSnapshot) ==
  \E i \in 1..Len(snapshot.models) : isModelUnused(snapshot.models[i], NullSnapshot)

\* hasUnusedModels(snapshot, previousSnapshot)
hasUnusedModels(snapshot, previousSnapshot) ==
  \E i \in 1..Len(snapshot.models) : isModelUnused(snapshot.models[i], previousSnapshot)

\* ------------------------------------------------ wake-up pass helpers

\* the wake-up config as loadWakeupConfig returns it; NoConfig is null
NoConfig == [isNull |-> TRUE, enabled |-> FALSE, selectedModels |-> {}, accounts |-> <<>>]
Configs ==
  {NoConfig} \cup
  [isNull : {FALSE}, enabled : BOOLEAN, selectedModels : SUBSET ModelIds,
   accounts : AccountLists]

\* loadWakeupState(accountEmail): the snapshot cached for the account, null
\* when none was saved
loadWakeupState(state, accountEmail) == state[accountEmail]

\* saveWakeupState(accountEmail, snapshot)
saveWakeupState(state, accountEmail, snapshot) ==
  [state EXCEPT ![accountEmail] = snapshot]

\* the scan over every model of the snapshot, selected or not
TargetModels_NoFilter(snapshot, selectedSet) == snapshot.models

\* snapshot.models.filter(m => selectedSet.has(m.modelId))
TargetModels(snapshot, selectedSet) ==
  SelectSeq(snapshot.models, LAMBDA m : m.modelId \in selectedSet)

\* the loop over targetModels from index i on: the positions whose model is
\* pushed to modelsToTrigger, given the ids seen so far
RECURSIVE ScanFrom(_, _, _, _)
ScanFrom(targetModels, previousSnapshot, i, seenModelIds) ==
  IF i > Len(targetModels) THEN <<>>
  ELSE LET model == targetModels[i]
       IN  IF model.modelId \in seenModelIds
           THEN ScanFrom(targetModels, previousSnapshot, i + 1, seenModelIds)
           ELSE (IF isModelUnused(model, previousSnapshot) THEN <<i>> ELSE <<>>)
                \o ScanFrom(targetModels, previousSnapshot, i + 1,
                            seenModelIds \cup {model.modelId})

\* the scan that keeps no set of ids seen: every unused entry is pushed
TriggerPositions_NoSkip(targetModels, previousSnapshot) ==
  SelectSeq([i \in 1..Len(targetModels) |-> i],
            LAMBDA i : isModelUnused(targetModels[i], previousSnapshot))

\* the scan that compares against the snapshot just fetched and saved, not
\* against the one loaded before
TriggerPositions_AgainstSaved(targetModels, previousSnapshot) ==
  ScanFrom(targetModels, QuotaSnapshot(targetModels), 1, {})

\* the scan that compares against no cache at all
TriggerPositions_IgnoresCache(targetModels, previousSnapshot) ==
  ScanFrom(targetModels, NullSnapshot, 1, {})

\* the positions in targetModels of the models pushed to modelsToTrigger
TriggerPositions(targetModels, previousSnapshot) ==
  ScanFrom(targetModels, previousSnapshot, 1, {})

\* the scan that stops at the first model it pushes
ModelsToTrigger_FirstOnly(targetModels, previousSnapshot) ==
  LET ps == TriggerPositions(targetModels, previousSnapshot)
  IN  IF ps = <<>> THEN <<>> ELSE <<targetModels[ps[1]].modelId>>

\* modelsToTrigger: the ids pushed, in order
ModelsToTrigger(targetModels, previousSnapshot) ==
  LET ps == TriggerPositions(targetModels, previousSnapshot)
  IN  [k \in 1..Len(ps) |-> targetModels[ps[k]].modelId]

\* the reset cycles a trigger call is issued for: account, model id and the
\* resetTime of the model that was pushed
TriggeredCycles(accountEmail, targetModels, previousSnapshot) ==
  LET ps == TriggerPositions(targetModels, previousSnapshot)
  IN  { <<accountEmail, targetModels[ps[k]].modelId, targetModels[ps[k]].resetTime>> :
          k \in 1..Len(ps) }

\* push on an array: an id that is already there is added again
AddAll_Push(ordered, ms) == ordered \o ms

\* Set.add on a set kept in insertion order
RECURSIVE AddAll(_, _)
AddAll(ordered, ms) ==
  IF ms = <<>> THEN ordered
  ELSE AddAll(IF \E i \in 1..Len(ordered) : ordered[i] = Head(ms)
              THEN ordered ELSE Append(ordered, Head(ms)),
              Tail(ms))

NoResult == [returned |-> FALSE, triggered |-> FALSE, triggeredModels |-> <<>>]
DetectionResult(t, ms) == [returned |-> TRUE, triggered |-> t, triggeredModels |-> ms]

\* --------------------------------------------------------- state
VARIABLES
  \* the call of a pure function under test: its arguments and its result
  op,            \* "none", "isModelUnused", "findUnusedModels", "hasUnusedModels"
  argKind,       \* "model": argModel is the input; "snapshot": argSnapshot is
  argModel,
  argSnapshot,
  argPrevious,
  retBool,
  retModels,
  \* the world detectResetAndTrigger runs in
  wakeupState,         \* storage: account -> cached snapshot (null when none)
  activeEmail,         \* the account manager's active account
  \* one invocation of detectResetAndTrigger
  pc,                  \* "idle", "loop", "fetch", "await", "done"
  fetches,             \* accounts visited so far, over all invocations
  accounts,            \* the accounts the for loop has still to visit
  accountEmail,        \* the loop variable
  originalActiveEmail,
  selectedSet,
  previousSnapshot,
  modelsToTrigger,
  anyTriggered,
  allTriggeredModels,
  result,              \* the DetectionResult returned
  \* history
  lastFetched,         \* account -> the snapshot its previous fetch returned
  refetchedSame,       \* the account whose fetch, in the step just taken, returned
                       \* the snapshot its previous fetch returned (else NoEmail)
  issued,              \* the reset cycles a trigger call was issued for
  reissued,            \* the reset cycles a trigger call was issued for again
  \* what the invocation in progress did, for the claims on whole passes
  shortCircuit,        \* "disabled", "noAccounts": why it returned at once (else "none")
  failedAccounts,      \* the accounts whose fetch or trigger call threw in this pass
  recent,              \* the <<account, model id>> pairs a trigger call was issued for
                       \* less than one cooldown window ago
  flaggedBy,           \* account -> the ids pushed to modelsToTrigger for it in this pass
  interruptedCall,     \* the reset cycles of the trigger call that was in flight when
                       \* the last invocation was killed
  calling,             \* the reset cycles of the trigger call in flight
  \* a second invocation of detectResetAndTrigger, in another process, for a
  \* config of one account
  oPc,                 \* "idle", "fetch", "await", "over"
  oAccount,            \* its accountEmail
  oOriginal,           \* its originalActiveEmail
  oSelected,           \* its selectedSet
  oPrevious,           \* its previousSnapshot
  oModels,             \* its modelsToTrigger
  oCalling             \* the reset cycles of its trigger call in flight

pureVars == <<op, argKind, argModel, argSnapshot, argPrevious, retBool, retModels>>
worldVars == <<wakeupState, activeEmail>>
passVars == <<pc, fetches, accounts, accountEmail, originalActiveEmail, selectedSet,
              previousSnapshot, modelsToTrigger, anyTriggered, allTriggeredModels, result>>
historyVars == <<lastFetched, refetchedSame, issued, reissued>>
ghostVars == <<shortCircuit, failedAccounts, recent, flaggedBy, interruptedCall>>
otherVars == <<oPc, oAccount, oOriginal, oSelected, oPrevious, oModels, oCalling>>
vars == <<pureVars, worldVars, passVars, historyVars, ghostVars, calling, otherVars>>

\* nothing cached, no invocation running
InitWorld ==
  /\ wakeupState = [a \in Accounts |-> NullSnapshot]
  /\ pc = "idle"
  /\ fetches = 0
  /\ accounts = <<>>
  /\ accountEmail = NoEmail
  /\ originalActiveEmail = NoEmail
  /\ selectedSet = {}
  /\ previousSnapshot = NullSnapshot
  /\ modelsToTrigger = <<>>
  /\ anyTriggered = FALSE
  /\ allTriggeredModels = <<>>
  /\ result = NoResult
  /\ lastFetched = [a \in Accounts |-> NullSnapshot]
  /\ refetchedSame = NoEmail
  /\ issued = {}
  /\ reissued = {}
  /\ shortCircuit = "none"
  /\ failedAccounts = {}
  /\ recent = {}
  /\ flaggedBy = [a \in Accounts |-> {}]
  /\ interruptedCall = {}
  /\ calling = {}
  /\ oPc = "idle"
  /\ oAccount = NoEmail
  /\ oOriginal = NoEmail
  /\ oSelected = {}
  /\ oPrevious = NullSnapshot
  /\ oModels = <<>>
  /\ oCalling = {}

\* no pure function under test
InitNoCall ==
  /\ op = "none"
  /\ argKind = "none"
  /\ argModel = NoModel
  /\ argSnapshot = NullSnapshot
  /\ argPrevious = NullSnapshot
  /\ retBool = FALSE
  /\ retModels = <<>>

InitPure ==
  /\ InitWorld
  /\ activeEmail = NoEmail
  /\ op = "none"
  /\ retBool = FALSE
  /\ retModels = <<>>
  /\ argPrevious \in SnapshotsOver(CachedModels, MaxModels) \cup {NullSnapshot}
  /\ \/ /\ argKind = "model"
        /\ argModel \in AllModels
        /\ argSnapshot = NullSnapshot
     \/ /\ argKind = "snapshot"
        /\ argModel = NoModel
        /\ argSnapshot \in SnapshotsOver(ScanModels, MaxModels)

CallIsModelUnused ==
  /\ argKind = "model"
  /\ op' = "isModelUnused"
  /\ retBool' = isModelUnused(argModel, argPrevious)
  /\ retModels' = <<>>
  /\ UNCHANGED <<argKind, argModel, argSnapshot, argPrevious, worldVars, passVars, historyVars,
                 ghostVars, calling, otherVars>>

CallFindUnusedModels ==
  /\ argKind = "snapshot"
  /\ op' = "findUnusedModels"
  /\ retModels' = findUnusedModels(argSnapshot, argPrevious)
  /\ retBool' = FALSE
  /\ UNCHANGED <<argKind, argModel, argSnapshot, argPrevious, worldVars, passVars, historyVars,
                 ghostVars, calling, otherVars>>

CallHasUnusedModels ==
  /\ argKind = "snapshot"
  /\ op' = "hasUnusedModels"
  /\ retBool' = hasUnusedModels(argSnapshot, argPrevious)
  /\ retModels' = <<>>
  /\ UNCHANGED <<argKind, argModel, argSnapshot, argPrevious, worldVars, passVars, historyVars,
                 ghostVars, calling, otherVars>>

NextPure == CallIsModelUnused \/ CallFindUnusedModels \/ CallHasUnusedModels

SpecPure == InitPure /\ [][NextPure]_vars

\* ------------------------------------------------ detectResetAndTrigger

\* what fetchQuota may return: up to one entry per model id known, in any order
\* and with ids repeated
FetchSnapshots == SnapshotsOver(FetchModels, Cardinality(ModelIds))

Init ==
  /\ InitNoCall
  /\ InitWorld
  /\ activeEmail \in Accounts \cup {NoEmail}

\* the end of one iteration of the for loop: its block-scoped locals are gone
EndIteration ==
  /\ pc' = "loop"
  /\ accountEmail' = NoEmail
  /\ previousSnapshot' = NullSnapshot

\* a start that tests the config for null only: a config that is not enabled
\* is run as if it were
StartDisabled_NullOnly ==
  /\ pc = "idle"
  /\ \E config \in Configs :
       /\ ~config.isNull /\ ~config.enabled
       /\ config.accounts # <<>>
       /\ fetches + Len(config.accounts) <= MaxFetches
       /\ fetches' = fetches + Len(config.accounts)
       /\ accounts' = config.accounts
       /\ selectedSet' = config.selectedModels
  /\ originalActiveEmail' = activeEmail
  /\ anyTriggered' = FALSE
  /\ allTriggeredModels' = <<>>
  /\ pc' = "loop"
  /\ UNCHANGED <<failedAccounts, recent, flaggedBy>>
  /\ interruptedCall' = {}
  /\ shortCircuit' = "disabled"
  /\ UNCHANGED <<accountEmail, previousSnapshot, modelsToTrigger, result>>
  /\ UNCHANGED <<pureVars, worldVars, historyVars>>
  /\ UNCHANGED <<calling, otherVars>>

\* lines 83-89: the config is missing or not enabled
StartDisabled ==
  /\ pc = "idle"
  /\ \E config \in Configs :
       /\ config.isNull \/ ~config.enabled
       /\ result' = DetectionResult(FALSE, <<>>)
  /\ pc' = "done"
  /\ UNCHANGED <<fetches, accounts, accountEmail, originalActiveEmail, selectedSet,
                 previousSnapshot, modelsToTrigger, anyTriggered, allTriggeredModels>>
  /\ UNCHANGED <<pureVars, worldVars, historyVars>>
  /\ UNCHANGED <<failedAccounts, recent, flaggedBy>>
  /\ interruptedCall' = {}
  /\ shortCircuit' = "disabled"
  /\ UNCHANGED <<calling, otherVars>>

\* lines 91-96: no account resolves
StartNoAccounts ==
  /\ pc = "idle"
  /\ \E config \in Configs :
       /\ ~config.isNull /\ config.enabled
       /\ config.accounts = <<>>
       /\ result' = DetectionResult(FALSE, <<>>)
  /\ pc' = "done"
  /\ UNCHANGED <<fetches, accounts, accountEmail, originalActiveEmail, selectedSet,
                 previousSnapshot, modelsToTrigger, anyTriggered, allTriggeredModels>>
  /\ UNCHANGED <<pureVars, worldVars, historyVars>>
  /\ UNCHANGED <<failedAccounts, recent, flaggedBy>>
  /\ interruptedCall' = {}
  /\ shortCircuit' = "noAccounts"
  /\ UNCHANGED <<calling, otherVars>>

\* lines 98-106: the pass starts
StartPass ==
  /\ pc = "idle"
  /\ \E config \in Configs :
       /\ ~config.isNull /\ config.enabled
       /\ config.accounts # <<>>
       /\ fetches + Len(config.accounts) <= MaxFetches
       /\ fetches' = fetches + Len(config.accounts)
       /\ accounts' = config.accounts
       /\ selectedSet' = config.selectedModels
  /\ originalActiveEmail' = activeEmail
  /\ anyTriggered' = FALSE
  /\ allTriggeredModels' = <<>>
  /\ pc' = "loop"
  /\ UNCHANGED <<accountEmail, previousSnapshot, modelsToTrigger, result>>
  /\ UNCHANGED <<pureVars, worldVars, historyVars>>
  /\ failedAccounts' = {}
  /\ UNCHANGED <<recent, flaggedBy>>
  /\ interruptedCall' = {}
  /\ shortCircuit' = "none"
  /\ UNCHANGED <<calling, otherVars>>

\* the cache is loaded for the account that is active before the switch, not
\* for the account of the iteration
BeginAccount_LoadsBeforeSwitch ==
  /\ pc = "loop"
  /\ accounts # <<>>
  /\ accountEmail' = Head(accounts)
  /\ accounts' = Tail(accounts)
  /\ activeEmail' = Head(accounts)
  /\ previousSnapshot' = IF activeEmail # NoEmail
                         THEN loadWakeupState(wakeupState, activeEmail)
                         ELSE NullSnapshot
  /\ modelsToTrigger' = <<>>
  /\ pc' = "fetch"
  /\ refetchedSame' = NoEmail
  /\ UNCHANGED <<fetches, originalActiveEmail, selectedSet, anyTriggered,
                 allTriggeredModels, result>>
  /\ UNCHANGED <<pureVars, wakeupState, lastFetched, issued, reissued>>
  /\ UNCHANGED ghostVars
  /\ UNCHANGED <<calling, otherVars>>

\* lines 108-120: the next account becomes active, its cache is loaded and the
\* quota fetch is started
BeginAccount ==
  /\ pc = "loop"
  /\ accounts # <<>>
  /\ accountEmail' = Head(accounts)
  /\ accounts' = Tail(accounts)
  /\ activeEmail' = Head(accounts)
  /\ previousSnapshot' = loadWakeupState(wakeupState, Head(accounts))
  /\ modelsToTrigger' = <<>>
  /\ pc' = "fetch"
  /\ refetchedSame' = NoEmail
  /\ UNCHANGED <<fetches, originalActiveEmail, selectedSet, anyTriggered,
                 allTriggeredModels, result>>
  /\ UNCHANGED <<pureVars, wakeupState, lastFetched, issued, reissued>>
  /\ UNCHANGED ghostVars
  /\ UNCHANGED <<calling, otherVars>>

\* anyTriggered is set before the test for an empty modelsToTrigger
FetchNothingUnused_MarksTriggered ==
  /\ pc = "fetch"
  /\ \E snapshot \in FetchSnapshots :
       LET targetModels == TargetModels(snapshot, selectedSet)
       IN  /\ ModelsToTrigger(targetModels, previousSnapshot) = <<>>
           /\ wakeupState' = saveWakeupState(wakeupState, accountEmail, snapshot)
           /\ lastFetched' = [lastFetched EXCEPT ![accountEmail] = snapshot]
           /\ refetchedSame' = IF snapshot = lastFetched[accountEmail]
                              THEN accountEmail ELSE NoEmail
  /\ modelsToTrigger' = <<>>
  /\ EndIteration
  /\ anyTriggered' = TRUE
  /\ UNCHANGED <<fetches, accounts, originalActiveEmail, selectedSet,
                 allTriggeredModels, result>>
  /\ UNCHANGED <<pureVars, activeEmail, issued, reissued>>
  /\ UNCHANGED ghostVars
  /\ UNCHANGED <<calling, otherVars>>

\* lines 120-143: the fetch returns, the snapshot is cached, and no selected
\* model of it is unused; the loop continues
FetchNothingUnused ==
  /\ pc = "fetch"
  /\ \E snapshot \in FetchSnapshots :
       LET targetModels == TargetModels(snapshot, selectedSet)
       IN  /\ ModelsToTrigger(targetModels, previousSnapshot) = <<>>
           /\ wakeupState' = saveWakeupState(wakeupState, accountEmail, snapshot)
           /\ lastFetched' = [lastFetched EXCEPT ![accountEmail] = snapshot]
           /\ refetchedSame' = IF snapshot = lastFetched[accountEmail]
                              THEN accountEmail ELSE NoEmail
  /\ modelsToTrigger' = <<>>
  /\ EndIteration
  /\ UNCHANGED <<fetches, accounts, originalActiveEmail, selectedSet,
                 anyTriggered, allTriggeredModels, result>>
  /\ UNCHANGED <<pureVars, activeEmail, issued, reissued>>
  /\ UNCHANGED ghostVars
  /\ UNCHANGED <<calling, otherVars>>

\* the fetch returns and executeTrigger is called before the snapshot is
\* cached: the save is left for after the call
FetchAndTrigger_SaveAfterCall ==
  /\ pc = "fetch"
  /\ \E snapshot \in FetchSnapshots :
       LET targetModels == TargetModels(snapshot, selectedSet)
           ms == ModelsToTrigger(targetModels, previousSnapshot)
           cycles == TriggeredCycles(accountEmail, targetModels, previousSnapshot)
       IN  /\ ms # <<>>
           /\ wakeupState' = wakeupState
           /\ modelsToTrigger' = ms
           /\ allTriggeredModels' = AddAll(allTriggeredModels, ms)
           /\ lastFetched' = [lastFetched EXCEPT ![accountEmail] = snapshot]
           /\ refetchedSame' = IF snapshot = lastFetched[accountEmail]
                              THEN accountEmail ELSE NoEmail
           /\ issued' = issued \cup cycles
           /\ reissued' = reissued \cup (issued \cap cycles)
  /\ anyTriggered' = TRUE
  /\ pc' = "await"
  /\ UNCHANGED <<fetches, accounts, accountEmail, originalActiveEmail, selectedSet,
                 previousSnapshot, result>>
  /\ UNCHANGED <<pureVars, activeEmail>>
  /\ recent' = recent \cup { <<accountEmail, modelsToTrigger'[i]>> : i \in 1..Len(modelsToTrigger') }
  /\ flaggedBy' = [flaggedBy EXCEPT ![accountEmail] =
                    { modelsToTrigger'[i] : i \in 1..Len(modelsToTrigger') }]
  /\ UNCHANGED <<shortCircuit, failedAccounts, interruptedCall>>
  /\ calling' = TriggeredCycles(accountEmail, TargetModels(lastFetched'[accountEmail], selectedSet),
                              previousSnapshot)
  /\ UNCHANGED otherVars

\* lines 120-157: the fetch returns, the snapshot is cached, some selected
\* models are unused and executeTrigger is called with them
FetchAndTrigger ==
  /\ pc = "fetch"
  /\ \E snapshot \in FetchSnapshots :
       LET targetModels == TargetModels(snapshot, selectedSet)
           ms == ModelsToTrigger(targetModels, previousSnapshot)
           cycles == TriggeredCycles(accountEmail, targetModels, previousSnapshot)
       IN  /\ ms # <<>>
           /\ wakeupState' = saveWakeupState(wakeupState, accountEmail, snapshot)
           /\ modelsToTrigger' = ms
           /\ allTriggeredModels' = AddAll(allTriggeredModels, ms)
           /\ lastFetched' = [lastFetched EXCEPT ![accountEmail] = snapshot]
           /\ refetchedSame' = IF snapshot = lastFetched[accountEmail]
                              THEN accountEmail ELSE NoEmail
           /\ issued' = issued \cup cycles
           /\ reissued' = reissued \cup (issued \cap cycles)
  /\ anyTriggered' = TRUE
  /\ pc' = "await"
  /\ UNCHANGED <<fetches, accounts, accountEmail, originalActiveEmail, selectedSet,
                 previousSnapshot, result>>
  /\ UNCHANGED <<pureVars, activeEmail>>
  /\ recent' = recent \cup { <<accountEmail, modelsToTrigger'[i]>> : i \in 1..Len(modelsToTrigger') }
  /\ flaggedBy' = [flaggedBy EXCEPT ![accountEmail] =
                    { modelsToTrigger'[i] : i \in 1..Len(modelsToTrigger') }]
  /\ UNCHANGED <<shortCircuit, failedAccounts, interruptedCall>>
  /\ calling' = TriggeredCycles(accountEmail, TargetModels(lastFetched'[accountEmail], selectedSet),
                              previousSnapshot)
  /\ UNCHANGED otherVars

\* the fetch throws and the catch clears what was cached for the account
FetchFail_ClearsCache ==
  /\ pc = "fetch"
  /\ modelsToTrigger' = <<>>
  /\ EndIteration
  /\ wakeupState' = saveWakeupState(wakeupState, accountEmail, QuotaSnapshot(<<>>))
  /\ UNCHANGED <<fetches, accounts, originalActiveEmail, selectedSet,
                 anyTriggered, allTriggeredModels, result>>
  /\ UNCHANGED <<pureVars, activeEmail, historyVars>>
  /\ failedAccounts' = failedAccounts \cup {accountEmail}
  /\ UNCHANGED <<shortCircuit, recent, flaggedBy, interruptedCall>>
  /\ UNCHANGED <<calling, otherVars>>

\* lines 120, 163-166: the fetch throws; the catch logs and the loop continues
FetchFail ==
  /\ pc = "fetch"
  /\ modelsToTrigger' = <<>>
  /\ EndIteration
  /\ UNCHANGED <<fetches, accounts, originalActiveEmail, selectedSet,
                 anyTriggered, allTriggeredModels, result>>
  /\ UNCHANGED <<pureVars, worldVars, historyVars>>
  /\ failedAccounts' = failedAccounts \cup {accountEmail}
  /\ UNCHANGED <<shortCircuit, recent, flaggedBy, interruptedCall>>
  /\ UNCHANGED <<calling, otherVars>>

\* lines 159-161: executeTrigger returns, with some or no model succeeded
\* (successCount only feeds the console summary and is not kept)
TriggerReturns ==
  /\ pc = "await"
  /\ \E modelSuccess \in 0..Len(modelsToTrigger) : TRUE
  /\ modelsToTrigger' = <<>>
  /\ EndIteration
  /\ UNCHANGED <<fetches, accounts, originalActiveEmail, selectedSet,
                 anyTriggered, allTriggeredModels, result>>
  /\ UNCHANGED <<pureVars, worldVars, historyVars>>
  /\ UNCHANGED ghostVars
  /\ calling' = {}
  /\ UNCHANGED otherVars

\* executeTrigger throws and nothing catches it: the invocation raises
TriggerFail_Propagates ==
  /\ pc = "await"
  /\ pc' = "raised"
  /\ failedAccounts' = failedAccounts \cup {accountEmail}
  /\ UNCHANGED <<fetches, accounts, accountEmail, originalActiveEmail, selectedSet,
                 previousSnapshot, modelsToTrigger, anyTriggered, allTriggeredModels, result>>
  /\ UNCHANGED <<pureVars, worldVars, historyVars, shortCircuit, recent, flaggedBy, interruptedCall>>
  /\ calling' = {}
  /\ UNCHANGED otherVars

\* lines 150, 163-166: executeTrigger throws; the catch logs and the loop
\* continues
TriggerFail ==
  /\ pc = "await"
  /\ modelsToTrigger' = <<>>
  /\ EndIteration
  /\ UNCHANGED <<fetches, accounts, originalActiveEmail, selectedSet,
                 anyTriggered, allTriggeredModels, result>>
  /\ UNCHANGED <<pureVars, worldVars, historyVars>>
  /\ failedAccounts' = failedAccounts \cup {accountEmail}
  /\ UNCHANGED <<shortCircuit, recent, flaggedBy, interruptedCall>>
  /\ calling' = {}
  /\ UNCHANGED otherVars

\* lines 169-182: the loop is over; the active account is restored if there
\* was one, and the result is returned (the locals are gone)
Finish ==
  /\ pc = "loop"
  /\ accounts = <<>>
  /\ activeEmail' = IF originalActiveEmail # NoEmail THEN originalActiveEmail
                    ELSE activeEmail
  /\ result' = DetectionResult(anyTriggered, allTriggeredModels)
  /\ pc' = "done"
  /\ refetchedSame' = NoEmail
  /\ accounts' = <<>>
  /\ originalActiveEmail' = NoEmail
  /\ selectedSet' = {}
  /\ anyTriggered' = FALSE
  /\ allTriggeredModels' = <<>>
  /\ UNCHANGED <<fetches, accountEmail, previousSnapshot, modelsToTrigger>>
  /\ UNCHANGED <<pureVars, wakeupState, lastFetched, issued, reissued>>
  /\ failedAccounts' = {}
  /\ UNCHANGED <<shortCircuit, recent, flaggedBy, interruptedCall>>
  /\ UNCHANGED <<calling, otherVars>>

\* the caller has taken the result
Return ==
  /\ pc = "done"
  /\ pc' = "idle"
  /\ result' = NoResult
  /\ UNCHANGED <<fetches, accounts, accountEmail, originalActiveEmail, selectedSet,
                 previousSnapshot, modelsToTrigger, anyTriggered, allTriggeredModels>>
  /\ UNCHANGED <<pureVars, worldVars, historyVars>>
  /\ flaggedBy' = [a \in Accounts |-> {}]
  /\ UNCHANGED <<failedAccounts, recent>>
  /\ UNCHANGED interruptedCall
  /\ shortCircuit' = "none"
  /\ UNCHANGED <<calling, otherVars>>

Next ==
  \/ StartDisabled
  \/ StartNoAccounts
  \/ StartPass
  \/ BeginAccount
  \/ FetchNothingUnused
  \/ FetchAndTrigger
  \/ FetchFail
  \/ TriggerReturns
  \/ TriggerFail
  \/ Finish
  \/ Return

Spec == Init /\ [][Next]_vars

\* the process is killed while it waits for fetchQuota or executeTrigger:
\* what it held in memory is gone, what it saved stays, and the active account
\* is not restored
Interrupt ==
  /\ pc \in {"fetch", "await"}
  /\ interruptedCall' = calling
  /\ pc' = "idle"
  /\ accounts' = <<>>
  /\ accountEmail' = NoEmail
  /\ originalActiveEmail' = NoEmail
  /\ selectedSet' = {}
  /\ previousSnapshot' = NullSnapshot
  /\ modelsToTrigger' = <<>>
  /\ anyTriggered' = FALSE
  /\ allTriggeredModels' = <<>>
  /\ refetchedSame' = NoEmail
  /\ failedAccounts' = {}
  /\ flaggedBy' = [a \in Accounts |-> {}]
  /\ UNCHANGED <<fetches, result, lastFetched, issued, reissued, shortCircuit, recent>>
  /\ UNCHANGED <<pureVars, worldVars>>
  /\ calling' = {}
  /\ UNCHANGED otherVars

NextInterrupt == Next \/ Interrupt

\* the passes, any of which may be killed at an await
SpecInterrupt == Init /\ [][NextInterrupt]_vars

\* ------------------------------- a second, overlapping invocation

\* the end of the second invocation: lines 169-182, its locals are gone
OtherEnd ==
  /\ activeEmail' = IF oOriginal # NoEmail THEN oOriginal ELSE activeEmail
  /\ oPc' = "over"
  /\ oAccount' = NoEmail
  /\ oOriginal' = NoEmail
  /\ oSelected' = {}
  /\ oPrevious' = NullSnapshot
  /\ oModels' = <<>>
  /\ oCalling' = {}

\* lines 83-120 in the second process, run while the first waits for the quota
\* of an account: an enabled config of that one account; the account becomes
\* active, its cache is loaded and the quota fetch is started
OtherBegin ==
  /\ oPc = "idle"
  /\ pc = "fetch"
  /\ fetches <= MaxFetchesBeforeOverlap
  /\ fetches' = MaxFetches
  /\ \E config \in Configs :
       /\ ~config.isNull /\ config.enabled
       /\ config.accounts = <<accountEmail>>
       /\ oAccount' = config.accounts[1]
       /\ oSelected' = config.selectedModels
       /\ activeEmail' = config.accounts[1]
       /\ oPrevious' = loadWakeupState(wakeupState, config.accounts[1])
  /\ oOriginal' = activeEmail
  /\ oPc' = "fetch"
  /\ UNCHANGED <<oModels, oCalling>>
  /\ UNCHANGED <<pc, accounts, accountEmail, originalActiveEmail, selectedSet,
                 previousSnapshot, modelsToTrigger, anyTriggered, allTriggeredModels, result>>
  /\ UNCHANGED <<pureVars, wakeupState, historyVars, ghostVars, calling>>

\* lines 120-143, 169-182 in the second process: nothing to trigger
OtherFetchNothingUnused ==
  /\ oPc = "fetch"
  /\ \E snapshot \in FetchSnapshots :
       /\ ModelsToTrigger(TargetModels(snapshot, oSelected), oPrevious) = <<>>
       /\ wakeupState' = saveWakeupState(wakeupState, oAccount, snapshot)
       /\ lastFetched' = [lastFetched EXCEPT ![oAccount] = snapshot]
  /\ OtherEnd
  /\ UNCHANGED <<pureVars, passVars, refetchedSame, issued, reissued, ghostVars, calling>>

\* lines 120-157 in the second process: executeTrigger is called
OtherFetchAndTrigger ==
  /\ oPc = "fetch"
  /\ \E snapshot \in FetchSnapshots :
       LET targetModels == TargetModels(snapshot, oSelected)
           ms == ModelsToTrigger(targetModels, oPrevious)
           cycles == TriggeredCycles(oAccount, targetModels, oPrevious)
       IN  /\ ms # <<>>
           /\ wakeupState' = saveWakeupState(wakeupState, oAccount, snapshot)
           /\ lastFetched' = [lastFetched EXCEPT ![oAccount] = snapshot]
           /\ oModels' = ms
           /\ oCalling' = cycles
           /\ issued' = issued \cup cycles
           /\ reissued' = reissued \cup (issued \cap cycles)
           /\ recent' = recent \cup { <<oAccount, ms[i]>> : i \in 1..Len(ms) }
  /\ oPc' = "await"
  /\ UNCHANGED <<oAccount, oOriginal, oSelected, oPrevious>>
  /\ UNCHANGED <<pureVars, activeEmail, passVars, refetchedSame, calling>>
  /\ UNCHANGED <<shortCircuit, failedAccounts, flaggedBy, interruptedCall>>

\* lines 120, 163-182 in the second process: the fetch throws
OtherFetchFail ==
  /\ oPc = "fetch"
  /\ OtherEnd
  /\ UNCHANGED <<pureVars, wakeupState, passVars, historyVars, ghostVars, calling>>

\* lines 150-182 in the second process: executeTrigger returns or throws
OtherTriggerDone ==
  /\ oPc = "await"
  /\ OtherEnd
  /\ UNCHANGED <<pureVars, wakeupState, passVars, historyVars, ghostVars, calling>>

NextOverlap ==
  \/ Next
  \/ OtherBegin
  \/ OtherFetchNothingUnused
  \/ OtherFetchAndTrigger
  \/ OtherFetchFail
  \/ OtherTriggerDone

\* the passes of one process, with one invocation of a second process that
\* starts while the first has loaded the state of the same account and has not
\* saved it yet; it is the last invocation to start
SpecOverlap == Init /\ [][NextOverlap]_vars

\* ------------------------- the exported functions and the passes

InitDetect == InitPure \/ Init

\* a behaviour either applies one of the exported pure functions to the
\* arguments it started with, or runs passes that visit MaxDetectFetches
\* accounts in all
NextDetect ==
  \/ NextPure
  \/ argKind = "none" /\ Next /\ fetches' <= MaxDetectFetches

SpecDetect == InitDetect /\ [][NextDetect]_vars

\* the clock: one cooldown window goes by with no trigger call issued
CooldownElapses ==
  /\ recent # {}
  /\ recent' = {}
  /\ UNCHANGED <<pureVars, worldVars, passVars, historyVars, shortCircuit, failedAccounts, flaggedBy,
                 interruptedCall>>
  /\ UNCHANGED <<calling, otherVars>>

NextClock == Next \/ CooldownElapses

\* the passes, with time going by between and within them
SpecClock == Init /\ [][NextClock]_vars

\* ------------------------------------------- claims on the pure functions

\* the cached record the lookup of isModelUnused finds for a model, if any
HasRecord(previous, id) == ~previous.isNull /\ FindIndex(previous.models, id) # 0
FirstRecord(previous, id) == previous.models[FindIndex(previous.models, id)]
IsFull(model) ==
  model.remainingPercentage # <<>> /\ model.remainingPercentage[1] >= FULL_QUOTA_THRESHOLD

\* C1, as stated: whenever the prior state holds some record for the model's
\* key whose reset time equals the model's resetTime, isModelUnused returns
\* false.
C1_AnyEqualRecord ==
  (/\ op = "isModelUnused"
   /\ \E i \in 1..Len(argPrevious.models) :
        /\ argPrevious.models[i].modelId = argModel.modelId
        /\ argPrevious.models[i].resetTime = argModel.resetTime)
  => retBool = FALSE

\* C1, amended: whenever the first record the prior state holds for the
\* model's key has a reset time equal to the model's resetTime, isModelUnused
\* returns false, whatever the model's remaining quota is.
C1_FirstRecordEqual ==
  (/\ op = "isModelUnused"
   /\ HasRecord(argPrevious, argModel.modelId)
   /\ FirstRecord(argPrevious, argModel.modelId).resetTime = argModel.resetTime)
  => retBool = FALSE

C1_Witness ==
  /\ op = "isModelUnused"
  /\ IsFull(argModel)
  /\ argModel.resetTime \in ResetTimes
  /\ HasRecord(argPrevious, argModel.modelId)
  /\ FirstRecord(argPrevious, argModel.modelId).resetTime = argModel.resetTime
  /\ retBool = FALSE

\* C2, as stated: a full, non-exhausted model with a resetTime is reported
\* unused whenever the prior state holds some record for its key with a
\* different reset time.
C2_AnyDifferentRecord ==
  (/\ op = "isModelUnused"
   /\ IsFull(argModel)
   /\ ~argModel.isExhausted
   /\ argModel.resetTime # NoResetTime
   /\ \E i \in 1..Len(argPrevious.models) :
        /\ argPrevious.models[i].modelId = argModel.modelId
        /\ argPrevious.models[i].resetTime # argModel.resetTime)
  => retBool = TRUE

\* C2, amended: a full, non-exhausted model with a resetTime is reported
\* unused whenever the first record the prior state holds for its key has a
\* different reset time, whichever records the prior state holds besides.
C2_FirstRecordDiffers ==
  (/\ op = "isModelUnused"
   /\ IsFull(argModel)
   /\ ~argModel.isExhausted
   /\ argModel.resetTime # NoResetTime
   /\ HasRecord(argPrevious, argModel.modelId)
   /\ FirstRecord(argPrevious, argModel.modelId).resetTime # argModel.resetTime)
  => retBool = TRUE

\* a roll-over seen next to a record of another model
C2_Witness ==
  /\ op = "isModelUnused"
  /\ IsFull(argModel)
  /\ ~argModel.isExhausted
  /\ argModel.resetTime = "R2"
  /\ HasRecord(argPrevious, argModel.modelId)
  /\ FirstRecord(argPrevious, argModel.modelId).resetTime = "R1"
  /\ \E i \in 1..Len(argPrevious.models) :
        argPrevious.models[i].modelId # argModel.modelId
  /\ retBool = TRUE

\* C3: a model at or above the threshold (0.99 included), not exhausted and
\* with a resetTime is reported unused whenever the prior state has no record
\* for its key: the prior state is null, empty, or holds other models only.
C3_FirstObservation ==
  (/\ op = "isModelUnused"
   /\ IsFull(argModel)
   /\ ~argModel.isExhausted
   /\ argModel.resetTime # NoResetTime
   /\ \A i \in 1..Len(argPrevious.models) :
        argPrevious.models[i].modelId # argModel.modelId)
  => retBool = TRUE

\* the boundary value 0.99 against a cache that holds another model only
C3_Witness ==
  /\ op = "isModelUnused"
  /\ argModel.remainingPercentage = <<FULL_QUOTA_THRESHOLD>>
  /\ ~argModel.isExhausted
  /\ argModel.resetTime # NoResetTime
  /\ ~argPrevious.isNull
  /\ Len(argPrevious.models) > 0
  /\ \A i \in 1..Len(argPrevious.models) :
        argPrevious.models[i].modelId # argModel.modelId
  /\ retBool = TRUE

\* C4: a model whose remainingPercentage is below the threshold is never
\* reported unused, whatever the prior state: no record, or a record with a
\* different reset time.
C4_PartialUsage ==
  (/\ op = "isModelUnused"
   /\ argModel.remainingPercentage # <<>>
   /\ argModel.remainingPercentage[1] < FULL_QUOTA_THRESHOLD)
  => retBool = FALSE

\* a partly used model whose reset time changed
C4_Witness ==
  /\ op = "isModelUnused"
  /\ argModel.remainingPercentage = <<98>>
  /\ argModel.resetTime = "R2"
  /\ HasRecord(argPrevious, argModel.modelId)
  /\ FirstRecord(argPrevious, argModel.modelId).resetTime = "R1"
  /\ retBool = FALSE

\* C5: a model with isExhausted = true is never reported unused, for every
\* prior state and every remainingPercentage and resetTime.
C5_ExhaustedNeverUnused ==
  (op = "isModelUnused" /\ argModel.isExhausted) => retBool = FALSE

\* C6: a model whose remainingPercentage or resetTime is absent is never
\* reported unused, for every prior state and every value of the other fields.
C6_MissingData ==
  (/\ op = "isModelUnused"
   /\ \/ argModel.remainingPercentage = <<>>
      \/ argModel.resetTime = NoResetTime)
  => retBool = FALSE

\* a full model without a reset time, on a first run
C6_Witness ==
  /\ op = "isModelUnused"
  /\ argModel.remainingPercentage = <<100>>
  /\ argModel.resetTime = NoResetTime
  /\ argPrevious.isNull
  /\ retBool = FALSE

\* C7: hasUnusedModels(snapshot, prior) is true exactly when
\* findUnusedModels(snapshot, prior) is non-empty.
C7_HasIffFindNonEmpty ==
  /\ op = "hasUnusedModels" =>
       (retBool <=> Len(findUnusedModels(argSnapshot, argPrevious)) > 0)
  /\ op = "findUnusedModels" =>
       (Len(retModels) > 0 <=> hasUnusedModels(argSnapshot, argPrevious))

\* a scan that finds nothing although a model of the snapshot is full: its
\* reset time is the cached one
C7_Witness ==
  /\ op = "hasUnusedModels"
  /\ retBool = FALSE
  /\ \E i \in 1..Len(argSnapshot.models) :
        /\ IsFull(argSnapshot.models[i])
        /\ argSnapshot.models[i].resetTime # NoResetTime
  /\ ~argPrevious.isNull

\* C8: the output of findUnusedModels holds at most one entry per modelId,
\* also for a snapshot with several entries of the same modelId.
C8_AtMostOnePerModelId ==
  op = "findUnusedModels" =>
    \A i, j \in 1..Len(retModels) :
      retModels[i].modelId = retModels[j].modelId => i = j

\* ------------------------------------------------ claims on the passes

\* C9: when a run fetches for an account the very snapshot the previous fetch
\* for that account returned, it issues no trigger call for that account,
\* whether the earlier trigger call returned or threw.
C9_SameSnapshotNoTrigger ==
  refetchedSame # NoEmail => (pc # "await" /\ modelsToTrigger = <<>>)

\* a second fetch of the same snapshot, one of whose selected models is full
\* and was triggered for in the earlier run
C9_Witness ==
  /\ refetchedSame = "a1"
  /\ pc = "loop"
  /\ \E i \in 1..Len(lastFetched["a1"].models) :
       LET m == lastFetched["a1"].models[i]
       IN  /\ IsFull(m)
           /\ m.modelId \in selectedSet
           /\ <<"a1", m.modelId, m.resetTime>> \in issued

\* C10: over any sequence of passes and fetched snapshots, a trigger for a
\* given account and model is issued at most once per distinct resetTime.
C10_OncePerResetCycle == reissued = {}

\* the ids held by a list of model ids
Ids(ms) == { ms[i] : i \in 1..Len(ms) }

ObservedResets(snapshot, previous, selected) ==
  { id \in selected :
      \E i \in 1..Len(snapshot.models) :
        LET m == snapshot.models[i]
        IN  /\ m.modelId = id
            /\ \A j \in 1..Len(snapshot.models) :
                 snapshot.models[j].modelId = id => j = i
            /\ IsFull(m)
            /\ m.resetTime # NoResetTime
            /\ \/ ~HasRecord(previous, id)
               \/ FirstRecord(previous, id).resetTime # m.resetTime }

\* the step in which the quota fetch of the current account returns a snapshot
FetchSucceeded ==
  /\ pc = "fetch"
  /\ \/ pc' = "await"
     \/ refetchedSame' = accountEmail
     \/ lastFetched' # lastFetched

\* C12: when the fetch for an account succeeds, every selected model that
\* shows a reset against the previously saved state of the account is among
\* the ids of the trigger call issued for that account in that same step of
\* the pass.
C12_ObservedResetTriggered ==
  [][ FetchSucceeded =>
        /\ ObservedResets(lastFetched'[accountEmail], previousSnapshot, selectedSet) # {}
             => pc' = "await"
        /\ ObservedResets(lastFetched'[accountEmail], previousSnapshot, selectedSet)
             \subseteq Ids(modelsToTrigger') ]_vars

\* a trigger call in flight for a model whose cycle rolled over: the saved
\* state held a record of it with another resetTime
C12_Witness ==
  /\ pc = "await"
  /\ \E id \in ObservedResets(lastFetched[accountEmail], previousSnapshot, selectedSet) :
       /\ HasRecord(previousSnapshot, id)
       /\ id \in Ids(modelsToTrigger)

\* C13: an invocation that finds the config missing or not enabled, or no
\* account to resolve, returns {triggered: false, triggeredModels: []} in its
\* first step: no quota fetch is started, no account's saved state is written,
\* the active account is not changed and no trigger call is issued.
C13_ShortCircuitIsNoOp ==
  [][ pc = "idle" /\ shortCircuit' # "none" =>
        /\ pc' = "done"
        /\ result' = DetectionResult(FALSE, <<>>)
        /\ UNCHANGED <<wakeupState, activeEmail, fetches, lastFetched, issued>> ]_vars

\* a disabled invocation has returned while an earlier pass left saved state
\* and an active account that it could have changed
C13_Witness ==
  /\ pc = "done"
  /\ shortCircuit = "disabled"
  /\ result = DetectionResult(FALSE, <<>>)
  /\ ~wakeupState["a1"].isNull
  /\ activeEmail # NoEmail

\* C14: when the quota fetch or the trigger call of an account throws, the
\* invocation does not raise: the loop is back at its head with the accounts
\* still to visit untouched, the next of them can be begun (or, if none is
\* left, the pass can finish), so the later accounts are fetched, evaluated
\* and triggered as they would have been.
C14_FailureIsolated ==
  /\ [][ failedAccounts' # failedAccounts /\ failedAccounts' # {} =>
           /\ pc' = "loop"
           /\ UNCHANGED <<accounts, selectedSet, originalActiveEmail, wakeupState>> ]_vars
  /\ [](failedAccounts # {} =>
           /\ pc \in {"loop", "fetch", "await"}
           /\ pc = "loop" /\ accounts # <<>> => ENABLED BeginAccount
           /\ pc = "loop" /\ accounts = <<>> => ENABLED Finish)

\* after the first account of the pass failed, a trigger call is in flight for
\* the second
C14_Witness ==
  /\ pc = "await"
  /\ failedAccounts # {}
  /\ accountEmail \notin failedAccounts
  /\ modelsToTrigger # <<>>

\* C15: a model is not triggered when a trigger call for the same account and
\* key was issued less than one cooldown window earlier; two trigger calls for
\* one account and key are never less than one window apart, whatever the
\* resetTime the fetches report.
C15_CooldownGate ==
  [][ pc = "fetch" /\ pc' = "await" =>
        \A i \in 1..Len(modelsToTrigger') :
          <<accountEmail, modelsToTrigger'[i]>> \notin recent ]_vars

\* C16: the list of ids handed to the trigger call of an account holds no
\* key twice, however often the fetched snapshot repeats it: an id is in the
\* list exactly when it is selected and the first entry of that id in the
\* snapshot is unused; the later entries of the id are skipped, unused or not.
C16_OncePerKeyPerPass ==
  [][ FetchSucceeded =>
        LET fetched == lastFetched'[accountEmail].models
        IN  /\ \A i, j \in 1..Len(modelsToTrigger') :
                 modelsToTrigger'[i] = modelsToTrigger'[j] => i = j
            /\ \A id \in ModelIds :
                 id \in Ids(modelsToTrigger') <=>
                   /\ id \in selectedSet
                   /\ FindIndex(fetched, id) # 0
                   /\ isModelUnused(fetched[FindIndex(fetched, id)], previousSnapshot) ]_vars

\* a trigger call in flight after a fetch that returned two unused entries of
\* one selected id
C16_Witness ==
  /\ pc = "await"
  /\ \E i, j \in 1..Len(lastFetched[accountEmail].models) :
       LET fetched == lastFetched[accountEmail].models
       IN  /\ i < j
           /\ fetched[i].modelId = fetched[j].modelId
           /\ fetched[i].modelId \in selectedSet
           /\ isModelUnused(fetched[i], previousSnapshot)
           /\ isModelUnused(fetched[j], previousSnapshot)

\* C17: the triggeredModels a pass returns holds no id twice and holds exactly
\* the ids flagged for triggering for some account of the pass; an account
\* for which none was flagged adds nothing.
C17_ResultIsUnionOfFlagged ==
  pc = "done" /\ shortCircuit = "none" =>
    /\ result.returned
    /\ \A i, j \in 1..Len(result.triggeredModels) :
         result.triggeredModels[i] = result.triggeredModels[j] => i = j
    /\ Ids(result.triggeredModels) = UNION { flaggedBy[a] : a \in Accounts }

\* a pass over two accounts has returned: m1 was flagged for both, m2 for the
\* second only
C17_Witness ==
  /\ pc = "done"
  /\ flaggedBy["a1"] = {"m1"}
  /\ flaggedBy["a2"] = {"m1", "m2"}
  /\ result.triggeredModels = <<"m1", "m2">>

\* the saved state of the account records, for the id, the given resetTime
Committed(state, account, id, resetTime) ==
  /\ HasRecord(state[account], id)
  /\ FirstRecord(state[account], id).resetTime = resetTime

\* C18: while the trigger call of an account is in flight, the saved state of
\* that account already records, for every model of the call, the resetTime
\* the fetch reported; an invocation killed during the call leaves those
\* records in the saved state.
C18_CommitPrecedesTrigger ==
  /\ pc = "await" =>
       \A i \in 1..Len(modelsToTrigger) :
         LET fetched == lastFetched[accountEmail].models
             id == modelsToTrigger[i]
         IN  Committed(wakeupState, accountEmail, id,
                       fetched[FindIndex(fetched, id)].resetTime)
  /\ \A c \in interruptedCall : Committed(wakeupState, c[1], c[2], c[3])

\* an invocation was killed during a trigger call for a model whose cycle had
\* rolled over, and no invocation has run since
C18_Witness ==
  /\ pc = "idle"
  /\ \E c \in interruptedCall : c[3] = "R2" /\ <<c[1], c[2], "R1">> \in issued

\* C19: two invocations that overlap on an account never both issue a trigger
\* call for the same model and reset cycle: no reset cycle is in the trigger
\* call in flight of both.
C19_NoDoubleTrigger == calling \cap oCalling = {}

\* the reset time the saved state of an account records for a model id
NoRecord == "absent"
RecordedReset(state, account, id) ==
  IF HasRecord(state[account], id) THEN FirstRecord(state[account], id).resetTime
  ELSE NoRecord

\* C20: the reset time recorded for a model in the saved state of an account
\* changes only in a step that flags that model unused for that account; a
\* fetch that flags no model leaves the saved state of the account as it was,
\* and a model seen partly used with a new resetTime keeps the old record.
C20_OnlyFlaggedUpdated ==
  [][ \A a \in Accounts, id \in ModelIds :
        RecordedReset(wakeupState', a, id) # RecordedReset(wakeupState, a, id) =>
          /\ pc' = "await"
          /\ a = accountEmail
          /\ id \in Ids(modelsToTrigger') ]_vars

\* C21: once the saved state of an account holds a record for a model id, it
\* holds one for that id after every later step of every pass, also when the
\* snapshot fetched no longer has the model.
C21_RecordsNeverDeleted ==
  [][ \A a \in Accounts, id \in ModelIds :
        HasRecord(wakeupState[a], id) => HasRecord(wakeupState'[a], id) ]_vars

\* C22: the step in which the quota fetch of an account throws issues no
\* trigger call and leaves the saved state of every account as it was, and the
\* account is not visited again in the pass, so no trigger call is issued for
\* it in that pass and the next pass loads the same prior state.
C22_FetchFailureLeavesAccount ==
  /\ [][ pc = "fetch" /\ accountEmail \in failedAccounts' =>
           /\ pc' = "loop"
           /\ UNCHANGED <<wakeupState, issued>>
           /\ flaggedBy'[accountEmail] = {}
           /\ loadWakeupState(wakeupState', accountEmail) = previousSnapshot ]_vars
  /\ [](pc \in {"fetch", "await"} => accountEmail \notin failedAccounts)

\* the fetch of an account with a saved snapshot has failed, and the pass has
\* gone on to a trigger call for the next account
C22_Witness ==
  /\ pc = "await"
  /\ \E a \in failedAccounts :
       /\ flaggedBy[a] = {}
       /\ ~wakeupState[a].isNull

\* C23: a call of isModelUnused, findUnusedModels or hasUnusedModels leaves
\* its arguments and the saved state as they were; and in a pass, the ids
\* pushed for an account are those whose first fetched entry is unused
\* against one and the same prior state, the snapshot that was saved for the
\* account before the fetched one was, which is the one the pass loaded.
C23_PriorStateReadOnly ==
  /\ [][ op' # op => UNCHANGED <<argModel, argSnapshot, argPrevious, wakeupState>> ]_vars
  /\ [][ FetchSucceeded =>
           LET fetched == lastFetched'[accountEmail].models
               prior == loadWakeupState(wakeupState, accountEmail)
           IN  /\ previousSnapshot = prior
               /\ pc' = "await" => previousSnapshot' = prior
               /\ \A id \in ModelIds :
                    id \in Ids(modelsToTrigger') <=>
                      /\ id \in selectedSet
                      /\ FindIndex(fetched, id) # 0
                      /\ isModelUnused(fetched[FindIndex(fetched, id)], prior) ]_vars

\* a trigger call in flight for an account whose saved snapshot is no longer
\* the non-null one the models were evaluated against
C23_Witness ==
  /\ pc = "await"
  /\ ~previousSnapshot.isNull
  /\ wakeupState[accountEmail] # previousSnapshot

\* C24: when an invocation returns, the active account is the one that was
\* active when the invocation started, whatever accounts were visited and
\* whichever of their fetches and trigger calls failed, also when no account
\* was active at the start.
C24_ActiveAccountRestored ==
  [][ /\ (pc = "idle" /\ pc' = "done" => activeEmail' = activeEmail)
      /\ (pc = "loop" /\ pc' = "done" => activeEmail' = originalActiveEmail) ]_vars

\* C25: the saved state of an account changes only in the step that handles
\* the fetch of that very account; the prior state an iteration loads is that
\* of its own account; and the ids it hands to the trigger call are those the
\* scan yields from the account's own prior state and own fetched snapshot,
\* whatever was saved, fetched or triggered for another account.
C25_PerAccountIsolation ==
  [][ /\ \A b \in Accounts :
           wakeupState'[b] # wakeupState[b] => pc = "fetch" /\ b = accountEmail
      /\ pc = "loop" /\ pc' = "fetch" =>
           previousSnapshot' = wakeupState[accountEmail']
      /\ FetchSucceeded =>
           /\ wakeupState'[accountEmail] = lastFetched'[accountEmail]
           /\ modelsToTrigger' =
                ModelsToTrigger(TargetModels(lastFetched'[accountEmail], selectedSet),
                                wakeupState[accountEmail]) ]_vars

\* in one pass a trigger call was issued for a1, and one is in flight for a2
\* while the two accounts have different snapshots saved
C25_Witness ==
  /\ pc = "await"
  /\ accountEmail = "a2"
  /\ flaggedBy["a1"] # {}
  /\ ~wakeupState["a1"].isNull
  /\ wakeupState["a1"] # wakeupState["a2"]
  /\ previousSnapshot # wakeupState["a1"]

\* C26: in every result returned, triggered is true exactly when
\* triggeredModels is not empty, and triggeredModels holds no id twice.
C26_ResultConsistent ==
  result.returned =>
    /\ result.triggered <=> result.triggeredModels # <<>>
    /\ \A i, j \in 1..Len(result.triggeredModels) :
         result.triggeredModels[i] = result.triggeredModels[j] => i = j

\* a pass has returned triggered with two ids, and for an account that has a
\* fetched snapshot it flagged nothing
C26_Witness ==
  /\ pc = "done"
  /\ result.triggered
  /\ Len(result.triggeredModels) = 2
  /\ \E a \in Accounts : flaggedBy[a] = {} /\ ~lastFetched[a].isNull

====
